---- MODULE Spec2Model ----
(***************************************************************************)
(* The simulation core of src/App.tsx: level loading (initLevel), keyboard *)
(* input (handleKeyDown), the movement engine (canMove, moveEntity), the   *)
(* per-frame update (update) and the deferred Eaten->Chase revert that     *)
(* update schedules with setTimeout.                                       *)
(*                                                                         *)
(* Rendering, sound and the cosmetic mouth phase (pac.mouth, pac.mouthDir) *)
(* and the never-read ghost fields speed, color and target are left out.   *)
(*                                                                         *)
(* React state: every setGameState call of a handler is a functional       *)
(* updater; they are applied in call order to the committed state, while   *)
(* the handler itself reads the gameState its closure was rendered with,   *)
(* i.e. the committed state at the start of the handler.                   *)
(***************************************************************************)
EXTENDS Integers, Sequences, FiniteSets, TLC

\* ------------------------------------------------------------------------
\* ./constants (imported at App.tsx:4, not part of the sources at hand).
\* The values are scaled down; the ratios keep FRIGHTENED_SPEED below the
\* wall probe's buffer and PACMAN_SPEED, GHOST_SPEED dividing TILE_SIZE.
TILE_SIZE == 4
PACMAN_SPEED == 2
GHOST_SPEED == 2
FRIGHTENED_SPEED == 1
EATEN_SPEED == 4
POWER_MODE_DURATION == 3

\* Tile codes of MapTile: 0 Empty, 1 Wall, 2 Pellet, 3 PowerPellet,
\* 4 GhostSpawn, 5 PlayerSpawn, 6 Bonus (written by initLevel).
LEVELS ==
  << << <<1, 1, 1, 1, 1, 1, 1>>,
        <<1, 4, 0, 5, 0, 2, 1>>,
        <<1, 1, 1, 1, 1, 1, 1>> >>,
     << <<1, 1, 1, 1, 1, 1, 1, 1, 1>>,
        <<1, 4, 0, 2, 3, 5, 3, 4, 1>>,
        <<1, 1, 1, 1, 1, 1, 1, 1, 1>>,
        <<1, 4, 1, 4, 1, 4, 1, 1, 1>>,
        <<1, 1, 1, 1, 1, 1, 1, 1, 1>> >> >>

\* Bounds of the model.
MaxLevel == 2
MaxPending == 2

\* ------------------------------------------------------------------------
VARIABLES
  levels,      \* the LEVELS array as it is in memory (the level templates)
  gameState,   \* useState<GameState>: score, lives, level, flags, powerModeTime
  pacman,      \* pacmanRef.current: pos, dir, nextDir
  ghosts,      \* ghostsRef.current: sequence of Ghost
  map,         \* mapRef.current: working grid, map[y+1][x+1]
  timers,      \* pending setTimeout callbacks of update, in scheduling order
  sounds,      \* the sounds.play* calls of the handler that ran last, in order
  skipped      \* TRUE iff the last handler was update and its gate returned at once

vars == <<levels, gameState, pacman, ghosts, map, timers, sounds, skipped>>

Directions == <<"UP", "DOWN", "LEFT", "RIGHT">>

Pos(px, py) == [x |-> px, y |-> py]

buffer == 2

MapRows(m) == Len(m)

MapCols(m) == IF Len(m) = 0 THEN 0 ELSE Len(m[1])

\* map[gridY] && map[gridY][gridX]: undefined (here -1) outside the grid.
TileAt(m, gx, gy) ==
  IF gy < 0 \/ gy >= MapRows(m) \/ gx < 0 \/ gx >= MapCols(m)
  THEN -1
  ELSE m[gy + 1][gx + 1]

SetTile(m, gx, gy, t) == [m EXCEPT ![gy + 1][gx + 1] = t]

\* A faulty variant of RoundTile below: Math.floor, as canMove has it.
RoundTile_Floor(v) == v \div TILE_SIZE

\* Math.round(v / TILE_SIZE) for an integer v: halves round up.
RoundTile(v) == (2 * v + TILE_SIZE) \div (2 * TILE_SIZE)

Dist2(a, b) == (a.x - b.x) * (a.x - b.x) + (a.y - b.y) * (a.y - b.y)

\* ------------------------------------------------------------------------
\* canMove (App.tsx:174-196)
canMove(m, pos, dir) ==
  IF dir \notin {"UP", "DOWN", "LEFT", "RIGHT"}
  THEN TRUE
  ELSE
    LET nextX == CASE dir = "LEFT" -> pos.x - buffer
                   [] dir = "RIGHT" -> pos.x + TILE_SIZE + buffer - 1
                   [] OTHER -> pos.x
        nextY == CASE dir = "UP" -> pos.y - buffer
                   [] dir = "DOWN" -> pos.y + TILE_SIZE + buffer - 1
                   [] OTHER -> pos.y
        gridX == nextX \div TILE_SIZE
        gridY == nextY \div TILE_SIZE
    IN IF gridX < 0 \/ gridX >= MapCols(m) \/ gridY < 0 \/ gridY >= MapRows(m)
       THEN TRUE
       ELSE m[gridY + 1][gridX + 1] # 1

\* The wrap-around of moveEntity (App.tsx:223-226), one axis.
Wrap(v, extent, speed) ==
  LET v1 == IF v < -TILE_SIZE THEN extent - speed ELSE v
  IN IF v1 >= extent THEN speed - TILE_SIZE ELSE v1

\* A faulty variant of moveEntity below: the buffered turn is committed
\* wherever it is passable, centred or not.
moveEntity_TurnsAnywhere(m, entity, speed) ==
  LET mapWidth == MapCols(m) * TILE_SIZE
      mapHeight == MapRows(m) * TILE_SIZE
      inHorizTunnel == entity.pos.x < 0 \/ entity.pos.x >= mapWidth - TILE_SIZE
      inVertTunnel == entity.pos.y < 0 \/ entity.pos.y >= mapHeight - TILE_SIZE
      inTunnel == inHorizTunnel \/ inVertTunnel
      dir1 == IF entity.nextDir # "NONE" /\ canMove(m, entity.pos, entity.nextDir)
              THEN entity.nextDir
              ELSE entity.dir
      go == canMove(m, entity.pos, dir1)
      dir2 == IF go THEN dir1 ELSE IF ~inTunnel THEN "NONE" ELSE dir1
      x1 == IF go
            THEN CASE dir1 = "LEFT" -> entity.pos.x - speed
                   [] dir1 = "RIGHT" -> entity.pos.x + speed
                   [] OTHER -> entity.pos.x
            ELSE entity.pos.x
      y1 == IF go
            THEN CASE dir1 = "UP" -> entity.pos.y - speed
                   [] dir1 = "DOWN" -> entity.pos.y + speed
                   [] OTHER -> entity.pos.y
            ELSE entity.pos.y
  IN [entity EXCEPT !.dir = dir2,
                    !.pos = Pos(Wrap(x1, mapWidth, speed), Wrap(y1, mapHeight, speed))]

\* moveEntity (App.tsx:198-227): the entity with pos and dir updated.
moveEntity(m, entity, speed) ==
  LET mapWidth == MapCols(m) * TILE_SIZE
      mapHeight == MapRows(m) * TILE_SIZE
      inHorizTunnel == entity.pos.x < 0 \/ entity.pos.x >= mapWidth - TILE_SIZE
      inVertTunnel == entity.pos.y < 0 \/ entity.pos.y >= mapHeight - TILE_SIZE
      inTunnel == inHorizTunnel \/ inVertTunnel
      inCenter == /\ ~inTunnel
                  /\ entity.pos.x % TILE_SIZE = 0
                  /\ entity.pos.y % TILE_SIZE = 0
      dir1 == IF inCenter /\ entity.nextDir # "NONE"
                 /\ canMove(m, entity.pos, entity.nextDir)
              THEN entity.nextDir
              ELSE entity.dir
      go == canMove(m, entity.pos, dir1)
      dir2 == IF go THEN dir1 ELSE IF ~inTunnel THEN "NONE" ELSE dir1
      x1 == IF go
            THEN CASE dir1 = "LEFT" -> entity.pos.x - speed
                   [] dir1 = "RIGHT" -> entity.pos.x + speed
                   [] OTHER -> entity.pos.x
            ELSE entity.pos.x
      y1 == IF go
            THEN CASE dir1 = "UP" -> entity.pos.y - speed
                   [] dir1 = "DOWN" -> entity.pos.y + speed
                   [] OTHER -> entity.pos.y
            ELSE entity.pos.y
  IN [entity EXCEPT !.dir = dir2,
                    !.pos = Pos(Wrap(x1, mapWidth, speed), Wrap(y1, mapHeight, speed))]

\* ------------------------------------------------------------------------
\* initLevel (App.tsx:77-141)

\* The cells of a grid in scan order (rows outer, columns inner).
Cells(m) ==
  [k \in 1..(MapRows(m) * MapCols(m)) |->
     Pos((k - 1) % MapCols(m), (k - 1) \div MapCols(m))]

CellsOf(m, t) == SelectSeq(Cells(m), LAMBDA c : m[c.y + 1][c.x + 1] = t)

\* A faulty variant of the lookup below: past the last level the index is
\* clamped instead of wrapped.
RawMap_Clamped(levelIdx) ==
  levels[IF levelIdx < Len(levels) THEN levelIdx + 1 ELSE Len(levels)]

\* rawMap of level levelIdx (App.tsx:78, 356).
RawMap(levelIdx) == levels[(levelIdx % Len(levels)) + 1]

\* The places a fruit can go: the Pellet cells of the template (App.tsx:82-87).
pelletPositions(levelIdx) == CellsOf(RawMap(levelIdx), 2)

\* The copy of the template with the fruit placed at pellet number pick
\* (App.tsx:79-91); pick = 0 when there is no pellet.
WithFruit(levelIdx, pick) ==
  IF pick = 0
  THEN RawMap(levelIdx)
  ELSE LET c == pelletPositions(levelIdx)[pick]
       IN SetTile(RawMap(levelIdx), c.x, c.y, 6)

\* The spawn markers that become ghosts: the first four in scan order.
GhostSpawns(m) ==
  LET all == CellsOf(m, 4)
  IN SubSeq(all, 1, IF Len(all) < 4 THEN Len(all) ELSE 4)

\* pacStart: the last PlayerSpawn in scan order, else the fallback (1, 1).
PacStart(m) ==
  LET all == CellsOf(m, 5)
  IN IF Len(all) = 0
     THEN Pos(1, 1)
     ELSE Pos(all[Len(all)].x * TILE_SIZE, all[Len(all)].y * TILE_SIZE)

\* The working grid after the spawn scan (App.tsx:98-120).
ClearSpawns(m) ==
  LET spawns == GhostSpawns(m)
      isSpawn(gx, gy) == \E i \in 1..Len(spawns) : spawns[i] = Pos(gx, gy)
  IN [r \in 1..MapRows(m) |->
       [c \in 1..MapCols(m) |->
          IF m[r][c] = 5 THEN 0
          ELSE IF m[r][c] = 4 /\ isSpawn(c - 1, r - 1) THEN 0
          ELSE m[r][c]]]

NewGhosts(m) ==
  LET spawns == GhostSpawns(m)
  IN [i \in 1..Len(spawns) |->
       [id |-> i - 1,
        pos |-> Pos(spawns[i].x * TILE_SIZE, spawns[i].y * TILE_SIZE),
        homePos |-> Pos(spawns[i].x * TILE_SIZE, spawns[i].y * TILE_SIZE),
        dir |-> "LEFT",
        nextDir |-> "LEFT",
        state |-> "CHASE"]]

NewPacman(m) == [pos |-> PacStart(m), dir |-> "NONE", nextDir |-> "NONE"]

\* A faulty variant of the updater below: keepScore is ignored.
LevelState_DropsScore(prev, levelIdx, keepScore) ==
  [prev EXCEPT !.level = levelIdx,
               !.score = 0,
               !.lives = 3,
               !.isPaused = TRUE,
               !.isGameOver = FALSE,
               !.isLevelComplete = FALSE,
               !.powerModeTime = 0]

\* The state updater of initLevel (App.tsx:131-140).
LevelState(prev, levelIdx, keepScore) ==
  [prev EXCEPT !.level = levelIdx,
               !.score = IF keepScore THEN prev.score ELSE 0,
               !.lives = IF keepScore THEN prev.lives ELSE 3,
               !.isPaused = TRUE,
               !.isGameOver = FALSE,
               !.isLevelComplete = FALSE,
               !.powerModeTime = 0]

\* Pending reverts are not cancelled by initLevel; each only records that a
\* level was loaded after it was scheduled.
AfterLoad(ts) ==
  [i \in 1..Len(ts) |-> [ts[i] EXCEPT !.sinceEaten = FALSE, !.sameLevel = FALSE]]

\* A faulty variant of the definition below: the working grid is the template
\* itself (const map = rawMap), so initLevel's writes land in the template.
TemplatesAfterLoad_Aliased(levelIdx, pick) ==
  [levels EXCEPT ![(levelIdx % Len(levels)) + 1] = ClearSpawns(WithFruit(levelIdx, pick))]

\* LEVELS after initLevel: rawMap.map(row => [...row]) (App.tsx:79) copies
\* every row, so the writes of App.tsx:90, 102, 116 reach only the copy.
TemplatesAfterLoad(levelIdx, pick) == levels

FruitPicks(levelIdx) ==
  IF Len(pelletPositions(levelIdx)) = 0 THEN {0} ELSE 1..Len(pelletPositions(levelIdx))

initLevel(levelIdx, keepScore) ==
  \E pick \in FruitPicks(levelIdx) :
    /\ map' = ClearSpawns(WithFruit(levelIdx, pick))
    /\ levels' = TemplatesAfterLoad(levelIdx, pick)
    /\ pacman' = NewPacman(WithFruit(levelIdx, pick))
    /\ ghosts' = NewGhosts(WithFruit(levelIdx, pick))
    /\ gameState' = LevelState(gameState, levelIdx, keepScore)
    /\ timers' = AfterLoad(timers)
    /\ sounds' = << >>
    /\ skipped' = FALSE

\* useState's initial value (App.tsx:54-62).
InitialGameState ==
  [score |-> 0, lives |-> 3, level |-> 0, isPaused |-> TRUE, isGameOver |-> FALSE,
   isLevelComplete |-> FALSE, powerModeTime |-> 0]

\* The state after mounting: useState's value, then initLevel(0) (App.tsx:143-145).
Init ==
  /\ levels = LEVELS
  /\ \E pick \in FruitPicks(0) :
    /\ map = ClearSpawns(WithFruit(0, pick))
    /\ pacman = NewPacman(WithFruit(0, pick))
    /\ ghosts = NewGhosts(WithFruit(0, pick))
    /\ gameState = LevelState(InitialGameState, 0, FALSE)
    /\ timers = << >>
    /\ sounds = << >>
    /\ skipped = FALSE

\* ------------------------------------------------------------------------
\* update (App.tsx:229-372).  A tick works on the record
\*   [pac, ghosts, map, gs, timers, sounds]
\* where gs is the committed game state with the updaters queued so far
\* applied, and closure is the gameState the callback was rendered with.

\* moveEntity(pac, PACMAN_SPEED) (App.tsx:232-233).
MovePlayer(st) == [st EXCEPT !.pac = moveEntity(st.map, st.pac, PACMAN_SPEED)]

\* A faulty variant of the loop below: Eaten ghosts are frightened as well.
Frighten_AlsoEaten(gs) ==
  [i \in 1..Len(gs) |-> [gs[i] EXCEPT !.state = "FRIGHTENED"]]

\* ghostsRef.current.forEach(g => { if (g.state !== EATEN) g.state = FRIGHTENED })
Frighten(gs) ==
  [i \in 1..Len(gs) |->
     IF gs[i].state # "EATEN" THEN [gs[i] EXCEPT !.state = "FRIGHTENED"] ELSE gs[i]]

\* The item under the player (App.tsx:237-254).
Consume(st) ==
  LET gridX == RoundTile(st.pac.pos.x)
      gridY == RoundTile(st.pac.pos.y)
      tile == TileAt(st.map, gridX, gridY)
  IN CASE tile = 2 ->
            [st EXCEPT !.map = SetTile(st.map, gridX, gridY, 0),
                       !.sounds = Append(@, <<"pellet">>),
                       !.gs.score = @ + 10]
       [] tile = 3 ->
            [st EXCEPT !.map = SetTile(st.map, gridX, gridY, 0),
                       !.sounds = Append(@, <<"power">>),
                       !.gs.score = @ + 50,
                       !.gs.powerModeTime = POWER_MODE_DURATION,
                       !.ghosts = Frighten(@)]
       [] tile = 6 ->
            [st EXCEPT !.map = SetTile(st.map, gridX, gridY, 0),
                       !.sounds = Append(@, <<"fruit">>),
                       !.gs.score = @ + 100]
       [] OTHER -> st

\* ghostsRef.current.forEach(g => { if (g.state === FRIGHTENED) g.state = CHASE })
Calm(gs) ==
  [i \in 1..Len(gs) |->
     IF gs[i].state = "FRIGHTENED" THEN [gs[i] EXCEPT !.state = "CHASE"] ELSE gs[i]]

\* A faulty variant of the countdown below: the last step does not calm.
Countdown_NoCalm(closure, st) ==
  IF closure.powerModeTime > 0
  THEN [st EXCEPT !.gs.powerModeTime = @ - 1]
  ELSE st

\* The power-mode countdown (App.tsx:256-261): the tests read the closure's
\* powerModeTime, the updater decrements the queued value.
Countdown(closure, st) ==
  IF closure.powerModeTime > 0
  THEN [st EXCEPT !.gs.powerModeTime = @ - 1,
                  !.ghosts = IF closure.powerModeTime = 1 THEN Calm(@) ELSE @]
  ELSE st

\* gSpeed (App.tsx:264-266).
GhostSpeed(ghost) ==
  IF ghost.state = "EATEN" THEN EATEN_SPEED
  ELSE IF ghost.state = "FRIGHTENED" THEN FRIGHTENED_SPEED
  ELSE GHOST_SPEED

\* reverse (App.tsx:273-276).
IsReverse(d, cur) ==
  \/ d = "UP" /\ cur = "DOWN"
  \/ d = "DOWN" /\ cur = "UP"
  \/ d = "LEFT" /\ cur = "RIGHT"
  \/ d = "RIGHT" /\ cur = "LEFT"

\* A faulty variant of validDirs below: the reverse is not excluded.
validDirs_AllowsReverse(m, ghost) ==
  SelectSeq(Directions, LAMBDA d : canMove(m, ghost.pos, d))

\* validDirs (App.tsx:271-280).
validDirs(m, ghost) ==
  SelectSeq(Directions,
            LAMBDA d : IF ghost.dir = "NONE"
                       THEN canMove(m, ghost.pos, d)
                       ELSE ~IsReverse(d, ghost.dir) /\ canMove(m, ghost.pos, d))

\* finalValidDirs (App.tsx:282).
finalValidDirs(m, ghost) ==
  IF Len(validDirs(m, ghost)) > 0
  THEN validDirs(m, ghost)
  ELSE SelectSeq(Directions, LAMBDA d : canMove(m, ghost.pos, d))

corners == <<Pos(0, 0), Pos(500, 0), Pos(0, 500), Pos(500, 500)>>

\* A faulty variant of target below: role 3 heads for the corner at exactly
\* 8 tiles as well.
Target_Role3Within(ghost, pac, all) ==
  IF ghost.state = "EATEN" THEN ghost.homePos
  ELSE IF ghost.state = "FRIGHTENED" THEN corners[(ghost.id % 4) + 1]
  ELSE CASE ghost.id = 0 -> pac.pos
         [] ghost.id = 1 ->
              IF pac.dir = "UP"
              THEN Pos(pac.pos.x - 4 * TILE_SIZE, pac.pos.y - 4 * TILE_SIZE)
              ELSE IF pac.dir = "DOWN" THEN Pos(pac.pos.x, pac.pos.y + 4 * TILE_SIZE)
              ELSE IF pac.dir = "LEFT" THEN Pos(pac.pos.x - 4 * TILE_SIZE, pac.pos.y)
              ELSE Pos(pac.pos.x + 4 * TILE_SIZE, pac.pos.y)
         [] ghost.id = 2 ->
              LET bx == IF Len(all) > 0 THEN all[1].pos.x ELSE 0
                  by == IF Len(all) > 0 THEN all[1].pos.y ELSE 0
              IN Pos(pac.pos.x + (pac.pos.x - bx), pac.pos.y + (pac.pos.y - by))
         [] ghost.id = 3 ->
              IF Dist2(ghost.pos, pac.pos) <= (8 * TILE_SIZE) * (8 * TILE_SIZE)
              THEN Pos(0, 500)
              ELSE pac.pos
         [] OTHER -> pac.pos

\* A faulty variant of target below: role 1 offsets both axes for a player
\* facing Left, as it does for one facing Up.
Target_Role1LeftCombined(ghost, pac, all) ==
  IF ghost.state = "EATEN" THEN ghost.homePos
  ELSE IF ghost.state = "FRIGHTENED" THEN corners[(ghost.id % 4) + 1]
  ELSE CASE ghost.id = 0 -> pac.pos
         [] ghost.id = 1 ->
              IF pac.dir = "UP"
              THEN Pos(pac.pos.x - 4 * TILE_SIZE, pac.pos.y - 4 * TILE_SIZE)
              ELSE IF pac.dir = "DOWN" THEN Pos(pac.pos.x, pac.pos.y + 4 * TILE_SIZE)
              ELSE IF pac.dir = "LEFT"
              THEN Pos(pac.pos.x - 4 * TILE_SIZE, pac.pos.y - 4 * TILE_SIZE)
              ELSE Pos(pac.pos.x + 4 * TILE_SIZE, pac.pos.y)
         [] ghost.id = 2 ->
              LET bx == IF Len(all) > 0 THEN all[1].pos.x ELSE 0
                  by == IF Len(all) > 0 THEN all[1].pos.y ELSE 0
              IN Pos(pac.pos.x + (pac.pos.x - bx), pac.pos.y + (pac.pos.y - by))
         [] ghost.id = 3 ->
              IF Dist2(ghost.pos, pac.pos) < (8 * TILE_SIZE) * (8 * TILE_SIZE)
              THEN Pos(0, 500)
              ELSE pac.pos
         [] OTHER -> pac.pos

\* target (App.tsx:285-310); all is ghostsRef.current as it is at that moment.
Target(ghost, pac, all) ==
  IF ghost.state = "EATEN" THEN ghost.homePos
  ELSE IF ghost.state = "FRIGHTENED" THEN corners[(ghost.id % 4) + 1]
  ELSE CASE ghost.id = 0 -> pac.pos
         [] ghost.id = 1 ->
              IF pac.dir = "UP"
              THEN Pos(pac.pos.x - 4 * TILE_SIZE, pac.pos.y - 4 * TILE_SIZE)
              ELSE IF pac.dir = "DOWN" THEN Pos(pac.pos.x, pac.pos.y + 4 * TILE_SIZE)
              ELSE IF pac.dir = "LEFT" THEN Pos(pac.pos.x - 4 * TILE_SIZE, pac.pos.y)
              ELSE Pos(pac.pos.x + 4 * TILE_SIZE, pac.pos.y)
         [] ghost.id = 2 ->
              LET bx == IF Len(all) > 0 THEN all[1].pos.x ELSE 0
                  by == IF Len(all) > 0 THEN all[1].pos.y ELSE 0
              IN Pos(pac.pos.x + (pac.pos.x - bx), pac.pos.y + (pac.pos.y - by))
         [] ghost.id = 3 ->
              IF Dist2(ghost.pos, pac.pos) < (8 * TILE_SIZE) * (8 * TILE_SIZE)
              THEN Pos(0, 500)
              ELSE pac.pos
         [] OTHER -> pac.pos

\* getDist (App.tsx:313-320), squared.
getDist(ghost, d, target) ==
  LET nx == CASE d = "LEFT" -> ghost.pos.x - TILE_SIZE
              [] d = "RIGHT" -> ghost.pos.x + TILE_SIZE
              [] OTHER -> ghost.pos.x
      ny == CASE d = "UP" -> ghost.pos.y - TILE_SIZE
              [] d = "DOWN" -> ghost.pos.y + TILE_SIZE
              [] OTHER -> ghost.pos.y
  IN Dist2(Pos(nx, ny), target)

\* finalValidDirs.sort(...)[0] (App.tsx:312-323): the sort is stable, so the
\* first element is the earliest candidate of least distance.
Nearest(ghost, dirs, target) ==
  LET best == CHOOSE i \in 1..Len(dirs) :
                /\ \A j \in 1..Len(dirs) :
                     getDist(ghost, dirs[i], target) <= getDist(ghost, dirs[j], target)
                /\ \A j \in 1..(i - 1) :
                     getDist(ghost, dirs[j], target) > getDist(ghost, dirs[i], target)
  IN dirs[best]

\* The decision point (App.tsx:268-328).
Decide(m, ghost, pac, all) ==
  LET inCenter == ghost.pos.x % TILE_SIZE = 0 /\ ghost.pos.y % TILE_SIZE = 0
      dirs == finalValidDirs(m, ghost)
  IN IF ghost.dir = "NONE" \/ inCenter
     THEN IF Len(dirs) > 0
          THEN LET pick == Nearest(ghost, dirs, Target(ghost, pac, all))
               IN [ghost EXCEPT !.nextDir = pick,
                                !.dir = IF ghost.dir = "NONE" THEN pick ELSE @]
          ELSE [ghost EXCEPT !.dir = "RIGHT"]
     ELSE ghost

\* dist < TILE_SIZE * 0.8 (App.tsx:332-333), squared and scaled by 25.
Collides(ghost, pac) == 25 * Dist2(ghost.pos, pac.pos) < 16 * TILE_SIZE * TILE_SIZE

\* A faulty variant of the capture below: the ghost's state is not changed.
Capture_StaysFrightened(st, i) ==
  [st EXCEPT !.sounds = Append(@, <<"eatGhost", st.ghosts[i].id>>),
             !.gs.score = @ + 200,
             !.timers = Append(@, [ghostId |-> st.ghosts[i].id,
                                   sinceEaten |-> TRUE,
                                   sameLevel |-> TRUE])]

\* Frightened ghost caught (App.tsx:334-346): the revert is scheduled with
\* the ghost's id.  sinceEaten and sameLevel are history: whether the ghost
\* has stayed Eaten and whether no level was loaded since the scheduling.
Capture(st, i) ==
  [st EXCEPT !.ghosts[i].state = "EATEN",
             !.sounds = Append(@, <<"eatGhost", st.ghosts[i].id>>),
             !.gs.score = @ + 200,
             !.timers = Append(@, [ghostId |-> st.ghosts[i].id,
                                   sinceEaten |-> TRUE,
                                   sameLevel |-> TRUE])]

\* The lives updater (App.tsx:350-354).
LoseLife(prev) ==
  IF prev.lives - 1 <= 0
  THEN [prev EXCEPT !.isGameOver = TRUE, !.lives = 0]
  ELSE [prev EXCEPT !.lives = prev.lives - 1, !.isPaused = TRUE]

\* The player's spawn looked up in the closure's level (App.tsx:356-361).
Respawn(closure, pac) ==
  LET all == CellsOf(RawMap(closure.level), 5)
  IN IF Len(all) = 0
     THEN pac
     ELSE [pac EXCEPT !.pos = Pos(all[Len(all)].x * TILE_SIZE,
                                  all[Len(all)].y * TILE_SIZE)]

\* ghostsRef.current.forEach(g => ...) (App.tsx:362-366).
ResetGhosts(gs) ==
  [i \in 1..Len(gs) |->
     [gs[i] EXCEPT !.pos = gs[i].homePos, !.dir = "LEFT", !.state = "CHASE"]]

\* Chase ghost catches the player (App.tsx:348-367).
Caught(closure, st) ==
  [st EXCEPT !.sounds = Append(@, <<"caught">>),
             !.gs = LoseLife(@),
             !.pac = Respawn(closure, @),
             !.ghosts = ResetGhosts(@),
             !.timers = [k \in 1..Len(@) |-> [@[k] EXCEPT !.sinceEaten = FALSE]]]

\* One iteration of ghostsRef.current.forEach (App.tsx:263-369).
GhostStep(closure, st, i) ==
  LET decided == Decide(st.map, st.ghosts[i], st.pac, st.ghosts)
      moved == moveEntity(st.map, decided, GhostSpeed(st.ghosts[i]))
      st1 == [st EXCEPT !.ghosts[i] = moved]
  IN IF Collides(moved, st.pac)
     THEN IF moved.state = "FRIGHTENED" THEN Capture(st1, i)
          ELSE IF moved.state = "CHASE" THEN Caught(closure, st1)
          ELSE st1
     ELSE st1

RECURSIVE GhostLoop(_, _, _)
GhostLoop(closure, st, i) ==
  IF i > Len(st.ghosts)
  THEN st
  ELSE GhostLoop(closure, GhostStep(closure, st, i), i + 1)

\* A faulty variant of the test below: a Bonus tile counts as a pellet.
LevelCheck_CountsBonus(st) ==
  IF \A r \in 1..MapRows(st.map) : \A c \in 1..MapCols(st.map) :
       st.map[r][c] \notin {2, 3, 6}
  THEN [st EXCEPT !.gs.isLevelComplete = TRUE]
  ELSE st

\* The level-complete test (App.tsx:371).
LevelCheck(st) ==
  IF \A r \in 1..MapRows(st.map) : \A c \in 1..MapCols(st.map) :
       st.map[r][c] \notin {2, 3}
  THEN [st EXCEPT !.gs.isLevelComplete = TRUE]
  ELSE st

\* A faulty variant of the gate below: the level-complete flag is not read.
Gated_NoLevelComplete(closure) == closure.isPaused \/ closure.isGameOver

\* The gate (App.tsx:230).
Gated(closure) == closure.isPaused \/ closure.isGameOver \/ closure.isLevelComplete

update(closure, st) ==
  LevelCheck(GhostLoop(closure, Countdown(closure, Consume(MovePlayer(st))), 1))

\* One animation frame: draw calls update (App.tsx:452).
Tick ==
  IF Gated(gameState)
  THEN /\ skipped' = TRUE
       /\ sounds' = << >>
       /\ UNCHANGED <<levels, gameState, pacman, ghosts, map, timers>>
  ELSE \E st \in {update(gameState,
                          [pac |-> pacman, ghosts |-> ghosts, map |-> map,
                           gs |-> gameState, timers |-> timers, sounds |-> << >>])} :
          /\ Len(st.timers) <= MaxPending
          /\ pacman' = st.pac
          /\ ghosts' = st.ghosts
          /\ map' = st.map
          /\ gameState' = st.gs
          /\ timers' = st.timers
          /\ sounds' = st.sounds
          /\ skipped' = FALSE
          /\ UNCHANGED levels

\* ------------------------------------------------------------------------
\* The deferred revert (App.tsx:340-346).  Every timer has the same delay,
\* so they fire in the order they were scheduled.
Revert(gs, ghostId) ==
  [i \in 1..Len(gs) |->
     IF gs[i].id = ghostId /\ gs[i].state = "EATEN"
     THEN [gs[i] EXCEPT !.state = "CHASE"]
     ELSE gs[i]]

FireRevert ==
  /\ timers # << >>
  /\ LET t == Head(timers)
         hit == \E i \in 1..Len(ghosts) : ghosts[i].id = t.ghostId /\ ghosts[i].state = "EATEN"
     IN /\ ghosts' = Revert(ghosts, t.ghostId)
        /\ sounds' = IF hit THEN << <<"respawn">> >> ELSE << >>
        /\ timers' = [k \in 1..(Len(timers) - 1) |->
                        IF hit /\ timers[k + 1].ghostId = t.ghostId
                        THEN [timers[k + 1] EXCEPT !.sinceEaten = FALSE]
                        ELSE timers[k + 1]]
  /\ skipped' = FALSE
  /\ UNCHANGED <<levels, gameState, pacman, map>>

\* ------------------------------------------------------------------------
\* handleKeyDown (App.tsx:147-167) and the overlay button (App.tsx:478).

\* Enter with the game-over flag set and the level-complete flag clear.
Restart ==
  /\ gameState.isGameOver /\ ~gameState.isLevelComplete
  /\ initLevel(0, FALSE)

\* Enter with the level-complete flag set.
AdvanceToNextLevel ==
  /\ gameState.isLevelComplete
  /\ gameState.level < MaxLevel
  /\ initLevel(gameState.level + 1, TRUE)

\* Enter otherwise.
Resume ==
  /\ ~gameState.isGameOver /\ ~gameState.isLevelComplete
  /\ gameState' = [gameState EXCEPT !.isPaused = FALSE]
  /\ sounds' = << >>
  /\ skipped' = FALSE
  /\ UNCHANGED <<levels, pacman, ghosts, map, timers>>

\* Space or p.
TogglePause ==
  /\ gameState' = [gameState EXCEPT !.isPaused = ~gameState.isPaused]
  /\ sounds' = << >>
  /\ skipped' = FALSE
  /\ UNCHANGED <<levels, pacman, ghosts, map, timers>>

\* An arrow key or w, a, s, d.
SetPlayerIntent(d) ==
  /\ pacman' = IF gameState.isPaused \/ gameState.isGameOver
               THEN pacman
               ELSE [pacman EXCEPT !.nextDir = d]
  /\ sounds' = << >>
  /\ skipped' = FALSE
  /\ UNCHANGED <<levels, gameState, ghosts, map, timers>>

Next ==
  \/ Tick
  \/ FireRevert
  \/ Restart
  \/ AdvanceToNextLevel
  \/ Resume
  \/ TogglePause
  \/ \E d \in {"UP", "DOWN", "LEFT", "RIGHT"} : SetPlayerIntent(d)

Spec == Init /\ [][Next]_vars

\* The timers are the browser's: a scheduled callback fires in the end.
FairSpec == Spec /\ WF_vars(FireRevert)

\* ------------------------------------------------------------------------
\* The movement engine on its own: the player steered through a grid with a
\* tunnel on each of the four edges, no pellets and no ghosts.

Maze ==
  << <<1, 1, 0, 1, 1>>,
     <<1, 0, 5, 0, 1>>,
     <<0, 0, 1, 0, 0>>,
     <<1, 0, 0, 0, 1>>,
     <<1, 1, 0, 1, 1>> >>

\* The grid and the player as initLevel sets them up (App.tsx:93-128), the
\* game running.
MoveInit ==
  /\ levels = << Maze >>
  /\ map = ClearSpawns(Maze)
  /\ pacman = NewPacman(Maze)
  /\ ghosts = << >>
  /\ gameState = [InitialGameState EXCEPT !.isPaused = FALSE]
  /\ timers = << >>
  /\ sounds = << >>
  /\ skipped = FALSE

\* moveEntity(pac, PACMAN_SPEED) of an ungated frame (App.tsx:232-233).
PlayerStep ==
  /\ pacman' = moveEntity(map, pacman, PACMAN_SPEED)
  /\ sounds' = << >>
  /\ skipped' = FALSE
  /\ UNCHANGED <<levels, gameState, ghosts, map, timers>>

MoveNext ==
  \/ PlayerStep
  \/ \E d \in {"UP", "DOWN", "LEFT", "RIGHT"} : SetPlayerIntent(d)

MoveSpec == MoveInit /\ [][MoveNext]_vars

\* ------------------------------------------------------------------------
\* The ghost's decision and move on their own: one ghost of any role and
\* state turned loose on a grid with a loop, a junction and a dead-end
\* corridor longer than 8 tiles, the player standing still.

Yard ==
  << <<1, 1, 1, 1, 1, 1, 1, 1, 1, 1, 1, 1>>,
     <<1, 0, 0, 0, 0, 0, 0, 0, 0, 0, 0, 1>>,
     <<1, 0, 1, 0, 1, 1, 1, 1, 1, 1, 1, 1>>,
     <<1, 0, 0, 0, 1, 1, 1, 1, 1, 1, 1, 1>>,
     <<1, 1, 1, 1, 1, 1, 1, 1, 1, 1, 1, 1>> >>

\* Where the ghost may start: the centre of any open cell.
YardGhostCells ==
  {c \in {Cells(Yard)[k] : k \in 1..Len(Cells(Yard))} : Yard[c.y + 1][c.x + 1] = 0}

\* Where the player may stand: at the junction, in the loop, and 8 and 9
\* tiles along the corridor from the loop's corner.
YardPlayerCells == {Pos(3, 1), Pos(3, 3), Pos(9, 1), Pos(10, 1)}

GhostInit ==
  /\ levels = << Yard >>
  /\ map = Yard
  /\ \E c \in YardPlayerCells : \E d \in {"UP", "DOWN", "LEFT", "RIGHT", "NONE"} :
       pacman = [pos |-> Pos(c.x * TILE_SIZE, c.y * TILE_SIZE),
                 dir |-> d, nextDir |-> "NONE"]
  /\ \E c \in YardGhostCells : \E d \in {"UP", "DOWN", "LEFT", "RIGHT"} :
     \E role \in 0..3 : \E st \in {"CHASE", "FRIGHTENED", "EATEN"} :
       ghosts = << [id |-> role,
                    pos |-> Pos(c.x * TILE_SIZE, c.y * TILE_SIZE),
                    homePos |-> Pos(TILE_SIZE, TILE_SIZE),
                    dir |-> d, nextDir |-> d, state |-> st] >>
  /\ gameState = [InitialGameState EXCEPT !.isPaused = FALSE]
  /\ timers = << >>
  /\ sounds = << >>
  /\ skipped = FALSE

\* The decision and the move of the ghost loop (App.tsx:264-330), without
\* the collision that follows.
GhostTurn ==
  /\ ghosts' = [i \in 1..Len(ghosts) |->
                  moveEntity(map, Decide(map, ghosts[i], pacman, ghosts),
                             GhostSpeed(ghosts[i]))]
  /\ sounds' = << >>
  /\ skipped' = FALSE
  /\ UNCHANGED <<levels, gameState, pacman, map, timers>>

GhostNext == GhostTurn

GhostSpec == GhostInit /\ [][GhostNext]_vars

\* ------------------------------------------------------------------------
\* The game on one level of another shape: a corridor that is a tunnel at
\* both ends, with two Pellets (one becomes the Bonus), a PowerPellet and
\* one ghost.
Grove ==
  << <<1, 1, 1, 1, 1, 1, 1>>,
     <<2, 0, 5, 2, 3, 4, 0>>,
     <<1, 1, 1, 1, 1, 1, 1>> >>

\* The state after mounting with Grove as the only template.
GroveInit ==
  /\ levels = << Grove >>
  /\ \E pick \in FruitPicks(0) :
    /\ map = ClearSpawns(WithFruit(0, pick))
    /\ pacman = NewPacman(WithFruit(0, pick))
    /\ ghosts = NewGhosts(WithFruit(0, pick))
    /\ gameState = LevelState(InitialGameState, 0, FALSE)
    /\ timers = << >>
    /\ sounds = << >>
    /\ skipped = FALSE

\* One sitting on the level: frames, reverts, Enter after a life loss and
\* the arrow keys.
GroveNext ==
  \/ Tick
  \/ FireRevert
  \/ Resume
  \/ \E d \in {"UP", "DOWN", "LEFT", "RIGHT"} : SetPlayerIntent(d)

GroveSpec == GroveInit /\ [][GroveNext]_vars

\* ------------------------------------------------------------------------
\* Properties

HasSound(ss, name) == \E k \in 1..Len(ss) : ss[k][1] = name

IdsOf(gs) == {gs[i].id : i \in 1..Len(gs)}

EatenId(id) == \E i \in 1..Len(ghosts) : ghosts[i].id = id /\ ghosts[i].state = "EATEN"

ChaseId(id) == \E i \in 1..Len(ghosts) : ghosts[i].id = id /\ ghosts[i].state = "CHASE"

\* The number of ghost-eaten sounds in ss.
Captures(ss) == Cardinality({k \in 1..Len(ss) : ss[k][1] = "eatGhost"})

\* The points of the item whose sound is in ss.
ItemPoints(ss) ==
  IF HasSound(ss, "pellet") THEN 10
  ELSE IF HasSound(ss, "power") THEN 50
  ELSE IF HasSound(ss, "fruit") THEN 100
  ELSE 0

\* C1: the score never decreases, except on a Restart that does not keep
\* the score, which sets it to 0.
C1_ScoreNeverDecreases ==
  [][gameState'.score < gameState.score => (Restart /\ gameState'.score = 0)]_vars

\* The score was earned on level 1 and carried into level 2 by the advance.
C1_Witness ==
  /\ gameState.level = 2
  /\ gameState.score > 0
  /\ gameState.lives < 3

\* C2: lives is never negative, and lives = 0 only with the game-over flag.
C2_LivesZeroIsGameOver ==
  /\ gameState.lives >= 0
  /\ gameState.lives = 0 => gameState.isGameOver

\* C3: a frame whose update finds the pause, game-over or level-complete
\* flag set leaves positions, directions, adversary states, the grid, the
\* score, the lives and the countdown as they were.
C3_GatedTickChangesNothing ==
  [][((gameState.isPaused \/ gameState.isGameOver \/ gameState.isLevelComplete) /\ Tick)
       => UNCHANGED <<gameState, pacman, ghosts, map, timers>>]_vars

\* A frame was skipped while the level was complete and the game not paused.
C3_Witness ==
  /\ skipped
  /\ gameState.isLevelComplete
  /\ ~gameState.isPaused
  /\ ~gameState.isGameOver

\* C4: between handlers, a countdown of 0 comes with no Frightened adversary.
C4_NoFrightenedAtZero ==
  gameState.powerModeTime = 0 =>
    \A i \in 1..Len(ghosts) : ghosts[i].state # "FRIGHTENED"

\* The countdown has run out on a frame that calmed the adversaries while a
\* captured one is still Eaten.
C4_Witness ==
  /\ gameState.powerModeTime = 0
  /\ ~skipped
  /\ \E i \in 1..Len(ghosts) : ghosts[i].state = "EATEN"
  /\ \E i \in 1..Len(ghosts) : ghosts[i].state = "CHASE"
  /\ ~gameState.isPaused /\ ~gameState.isGameOver /\ ~gameState.isLevelComplete

\* C5: a nonzero countdown comes with an adversary that is Frightened or Eaten.
C5_CountdownMeansFrightenedOrEaten ==
  gameState.powerModeTime # 0 =>
    \E i \in 1..Len(ghosts) : ghosts[i].state \in {"FRIGHTENED", "EATEN"}

\* C6: after a frame on which the player ate a PowerPellet and lost no life,
\* every adversary that was not Eaten before is Frightened (or was captured
\* on that frame), whatever the countdown was.
C6_PowerPelletFrightensAll ==
  [][(HasSound(sounds', "power") /\ ~HasSound(sounds', "caught"))
       => \A i \in 1..Len(ghosts) :
            ghosts[i].state # "EATEN" => ghosts'[i].state \in {"FRIGHTENED", "EATEN"}]_vars

\* C7: after a frame on which the player ate a PowerPellet the countdown is
\* the configured duration, whether or not power mode was active before.
C7_PowerPelletSetsDuration ==
  [][HasSound(sounds', "power") => gameState'.powerModeTime = POWER_MODE_DURATION]_vars

\* C8: on an ungated frame a Frightened adversary within the collision
\* threshold of the player becomes Eaten (and stays so to the end of the
\* frame unless a life is lost later on that frame) and the score rises by
\* 200 for each capture on top of the frame's item; and, the scheduled
\* callbacks being fired in the end, an Eaten adversary returns to Chase.
C8_CaptureStep ==
  /\ (Tick /\ ~skipped' /\ ~HasSound(sounds', "caught"))
       => \A i \in 1..Len(ghosts') :
            Collides(ghosts'[i], pacman') => ghosts'[i].state # "FRIGHTENED"
  /\ \A k \in 1..Len(sounds') :
       sounds'[k][1] = "eatGhost" =>
         /\ \/ \E j \in (k + 1)..Len(sounds') : sounds'[j][1] = "caught"
            \/ \E i \in 1..Len(ghosts') :
                 ghosts'[i].id = sounds'[k][2] /\ ghosts'[i].state = "EATEN"
         /\ gameState'.score =
              gameState.score + ItemPoints(sounds') + 200 * Captures(sounds')

C8_CaptureAndReturn ==
  /\ [][C8_CaptureStep]_vars
  /\ \A id \in 0..3 : EatenId(id) ~> (ChaseId(id) \/ id \notin IdsOf(ghosts))

\* An adversary is Eaten with its revert pending, the capture's 200 scored.
C8_Witness ==
  /\ \E i \in 1..Len(ghosts) : ghosts[i].state = "EATEN"
  /\ HasSound(sounds, "eatGhost")
  /\ gameState.score >= 250
  /\ timers # << >>

\* C9: a revert whose adversary has not been Eaten all the time since the
\* capture that scheduled it leaves every adversary's state as it was.
C9_StaleRevertChangesNothing ==
  [][(FireRevert /\ ~Head(timers).sinceEaten)
       => \A i \in 1..Len(ghosts) : ghosts'[i].state = ghosts[i].state]_vars

\* C10: a revert scheduled before a Restart or AdvanceToNextLevel leaves
\* every adversary's state as it was.
C10_OldLevelRevertChangesNothing ==
  [][(FireRevert /\ ~Head(timers).sameLevel)
       => \A i \in 1..Len(ghosts) : ghosts'[i].state = ghosts[i].state]_vars

\* The player's spawn of the level being played: the last PlayerSpawn of its
\* template in scan order.
SpawnOf(levelIdx) == PacStart(levels[(levelIdx % Len(levels)) + 1])

\* C11: after an ungated frame on which a Chase adversary reached the player,
\* lives is one less, the player is at the level's spawn, every adversary is
\* at its home position in Chase, and the pause flag (lives > 0) or the
\* game-over flag (lives = 0) is set.
C11_LifeLossResetsAll ==
  [][(Tick /\ HasSound(sounds', "caught")) =>
       /\ gameState'.lives = gameState.lives - 1
       /\ pacman'.pos = SpawnOf(gameState.level)
       /\ \A i \in 1..Len(ghosts') :
            ghosts'[i].pos = ghosts'[i].homePos /\ ghosts'[i].state = "CHASE"
       /\ IF gameState'.lives > 0 THEN gameState'.isPaused ELSE gameState'.isGameOver]_vars

\* Tiles of kind t on the grid m.
CountTiles(m, t) ==
  Cardinality({rc \in (1..MapRows(m)) \X (1..MapCols(m)) : m[rc[1]][rc[2]] = t})

\* A Pellet or PowerPellet is left on the grid m.
PelletLeft(m) == \E r \in 1..MapRows(m) : \E c \in 1..MapCols(m) : m[r][c] \in {2, 3}

\* C12: after every ungated frame the level-complete flag is set exactly if
\* no Pellet and no PowerPellet is left (a Bonus left over does not count):
\* the flag is never set with one left, and no ungated frame ends with none
\* left and the flag clear;
\* once it is set no frame changes a position, the grid or the score, and
\* only AdvanceToNextLevel or Restart clears it.
C12_LevelCompleteIffCleared ==
  [][/\ gameState'.isLevelComplete => ~PelletLeft(map')
     /\ (/\ ~gameState'.isLevelComplete
         /\ ~(gameState.isPaused \/ gameState.isGameOver \/ gameState.isLevelComplete)
         /\ ~PelletLeft(map'))
          => ~Tick
     /\ (gameState.isLevelComplete /\ Tick) =>
          /\ pacman'.pos = pacman.pos
          /\ \A i \in 1..Len(ghosts) : ghosts'[i].pos = ghosts[i].pos
          /\ map' = map
          /\ gameState'.score = gameState.score
     /\ (gameState.isLevelComplete /\ ~gameState'.isLevelComplete) =>
          (AdvanceToNextLevel \/ Restart)]_vars

\* The four-ghost level was completed with its Bonus still on the grid, and
\* a frame has come and gone since.
C12_Witness ==
  /\ gameState.isLevelComplete
  /\ skipped
  /\ Len(ghosts) = 4
  /\ CountTiles(map, 6) = 1
  /\ CountTiles(map, 2) = 0 /\ CountTiles(map, 3) = 0

\* The GhostSpawn cells of the template tpl that come before row r, column c
\* in scan order.
SpawnsBefore(tpl, r, c) ==
  Cardinality({rc \in (1..Len(tpl)) \X (1..Len(tpl[1])) :
                 /\ tpl[rc[1]][rc[2]] = 4
                 /\ (rc[1] < r \/ (rc[1] = r /\ rc[2] < c))})

\* The grid m is the template tpl freshly loaded: one Pellet cell holds the
\* Bonus (if the template has a Pellet), every PlayerSpawn cell and the first
\* four GhostSpawn cells are Empty, every other cell is the template's.
LoadedFrom(tpl, m) ==
  /\ Len(m) = Len(tpl)
  /\ \A r \in 1..Len(tpl) : Len(m[r]) = Len(tpl[r])
  /\ CountTiles(m, 6) = (IF CountTiles(tpl, 2) > 0 THEN 1 ELSE 0)
  /\ \A r \in 1..Len(tpl) : \A c \in 1..Len(tpl[r]) :
       IF tpl[r][c] = 5 THEN m[r][c] = 0
       ELSE IF tpl[r][c] = 4
            THEN m[r][c] = (IF SpawnsBefore(tpl, r, c) < 4 THEN 0 ELSE 4)
       ELSE IF tpl[r][c] = 2 THEN m[r][c] \in {2, 6}
       ELSE m[r][c] = tpl[r][c]

\* C13: loading a level never changes a template; the grid right after a
\* load (on mounting, Restart, AdvanceToNextLevel) is the template with one
\* Pellet turned into the Bonus and the PlayerSpawn and first four GhostSpawn
\* cells Empty; and the grid never holds more than one Bonus.
C13_LoadCopiesTemplate ==
  /\ LoadedFrom(LEVELS[1], map)
  /\ [](levels = LEVELS /\ CountTiles(map, 6) <= 1)
  /\ [][(Restart \/ AdvanceToNextLevel) =>
          LoadedFrom(LEVELS[(gameState'.level % Len(LEVELS)) + 1], map')]_vars

\* The level with five GhostSpawn markers was loaded again by a Restart: the
\* fifth marker is still on the grid, one Bonus is placed, callbacks of the
\* earlier game are pending.
C13_Witness ==
  /\ gameState.level = 1
  /\ gameState.isPaused /\ gameState.score = 0 /\ gameState.lives = 3
  /\ timers # << >>
  /\ CountTiles(map, 4) = 1
  /\ CountTiles(map, 6) = 1
  /\ CountTiles(map, 3) = 2

\* The state a load leaves behind, apart from score, lives and level: paused,
\* both end flags clear, no power mode, every adversary in Chase at the home
\* position its spawn marker in the template tpl gives it.
FreshOn(tpl, gs, ghs) ==
  /\ gs.isPaused /\ ~gs.isGameOver /\ ~gs.isLevelComplete
  /\ gs.powerModeTime = 0
  /\ Len(ghs) = (IF CountTiles(tpl, 4) < 4 THEN CountTiles(tpl, 4) ELSE 4)
  /\ \A i \in 1..Len(ghs) :
       /\ ghs[i].state = "CHASE"
       /\ ghs[i].pos = ghs[i].homePos
       /\ ghs[i].homePos.x % TILE_SIZE = 0 /\ ghs[i].homePos.y % TILE_SIZE = 0
       /\ LET r == (ghs[i].homePos.y \div TILE_SIZE) + 1
              c == (ghs[i].homePos.x \div TILE_SIZE) + 1
          IN /\ r \in 1..Len(tpl) /\ c \in 1..Len(tpl[r])
             /\ tpl[r][c] = 4
             /\ SpawnsBefore(tpl, r, c) = i - 1

\* C14: Restart gives score 0 and lives 3 on level 0; AdvanceToNextLevel
\* keeps score and lives and loads the template of index (level + 1) modulo
\* the number of levels; both leave the game paused, the end flags clear, the
\* countdown 0 and every adversary in Chase at home.
C14_RestartAndAdvance ==
  [][/\ Restart =>
          /\ gameState'.score = 0 /\ gameState'.lives = 3 /\ gameState'.level = 0
          /\ LoadedFrom(LEVELS[1], map')
          /\ FreshOn(LEVELS[1], gameState', ghosts')
     /\ AdvanceToNextLevel =>
          /\ gameState'.score = gameState.score
          /\ gameState'.lives = gameState.lives
          /\ gameState'.level = gameState.level + 1
          /\ LoadedFrom(LEVELS[((gameState.level + 1) % Len(LEVELS)) + 1], map')
          /\ FreshOn(LEVELS[((gameState.level + 1) % Len(LEVELS)) + 1],
                     gameState', ghosts')]_vars

\* The advance past the last template has wrapped to the first one, with the
\* score of the level before carried over.
C14_Witness ==
  /\ gameState.level = Len(LEVELS)
  /\ map = ClearSpawns(WithFruit(0, 1))
  /\ gameState.score > 0
  /\ gameState.isPaused
  /\ pacman.dir = "NONE"

\* Positions on an axis of extent e run from -TILE_SIZE up to e, so one trip
\* round the axis is e + TILE_SIZE long.
WrapPeriod(extent) == extent + TILE_SIZE

\* The step from a to b on an axis of extent e is one frame's travel at
\* speed s, forwards or backwards, or none, modulo the wrap period.
LosslessStep(a, b, e, s) ==
  (b - a) % WrapPeriod(e) \in {0, s, WrapPeriod(e) - s}

\* C15: a frame moves the player by exactly its speed on the axis it moves
\* along, modulo the wrap period, across every tunnel edge as well.
C15_WrapIsLossless ==
  [][/\ LosslessStep(pacman.pos.x, pacman'.pos.x, MapCols(map) * TILE_SIZE, PACMAN_SPEED)
     /\ LosslessStep(pacman.pos.y, pacman'.pos.y, MapRows(map) * TILE_SIZE, PACMAN_SPEED)]_vars

Centred(pos) == pos.x % TILE_SIZE = 0 /\ pos.y % TILE_SIZE = 0

\* The tunnel zone of moveEntity, where no turn is committed.
InTunnelZone(m, pos) ==
  \/ pos.x < 0 \/ pos.x >= (MapCols(m) - 1) * TILE_SIZE
  \/ pos.y < 0 \/ pos.y >= (MapRows(m) - 1) * TILE_SIZE

\* C16: the player's direction changes only on a frame that begins with the
\* player centred on a tile, and a halted player (direction None) is centred
\* on a tile outside the tunnel zone, where a buffered turn can be committed.
C16_TurnsAndHaltsAtCentres ==
  /\ [][pacman'.dir # pacman.dir => Centred(pacman.pos)]_vars
  /\ [](pacman.dir = "NONE" => (Centred(pacman.pos) /\ ~InTunnelZone(map, pacman.pos)))

\* The player has run into a wall and halted there with a turn buffered.
C16_Witness ==
  /\ pacman.dir = "NONE"
  /\ pacman.nextDir = "UP"
  /\ pacman.pos = Pos(TILE_SIZE, TILE_SIZE)

\* The place of a direction in the enumeration Up, Down, Left, Right.
Rank(d) == CASE d = "UP" -> 1 [] d = "DOWN" -> 2 [] d = "LEFT" -> 3 [] OTHER -> 4

Opposite(d) ==
  CASE d = "UP" -> "DOWN" [] d = "DOWN" -> "UP"
    [] d = "LEFT" -> "RIGHT" [] d = "RIGHT" -> "LEFT" [] OTHER -> "NONE"

\* The point one tile from pos in direction d.
Ahead(pos, d) ==
  CASE d = "UP" -> Pos(pos.x, pos.y - TILE_SIZE)
    [] d = "DOWN" -> Pos(pos.x, pos.y + TILE_SIZE)
    [] d = "LEFT" -> Pos(pos.x - TILE_SIZE, pos.y)
    [] OTHER -> Pos(pos.x + TILE_SIZE, pos.y)

\* The passable cardinal directions of a ghost other than its reverse, or
\* all the passable ones when there is no other.
Candidates(m, g) ==
  LET open == {d \in {"UP", "DOWN", "LEFT", "RIGHT"} : canMove(m, g.pos, d)}
  IN IF open \ {Opposite(g.dir)} # {} THEN open \ {Opposite(g.dir)} ELSE open

\* d is the candidate whose point one tile ahead is nearest to target, the
\* first in the enumeration among equals.
IsBest(m, g, d, target) ==
  /\ d \in Candidates(m, g)
  /\ \A e \in Candidates(m, g) :
       \/ Dist2(Ahead(g.pos, d), target) < Dist2(Ahead(g.pos, e), target)
       \/ /\ Dist2(Ahead(g.pos, d), target) = Dist2(Ahead(g.pos, e), target)
          /\ Rank(d) <= Rank(e)

\* A ghost at a decision point with somewhere to go.
Deciding(m, g) ==
  /\ g.dir = "NONE" \/ Centred(g.pos)
  /\ Candidates(m, g) # {}

\* C17 as claimed: role 3 in Chase steers for the far corner when it is more
\* than 8 tiles from the player, and for the player at 8 tiles or less.
C17_Role3CornerWhenFar ==
  [][\A i \in 1..Len(ghosts) :
       (ghosts[i].id = 3 /\ ghosts[i].state = "CHASE" /\ Deciding(map, ghosts[i])) =>
         IsBest(map, ghosts[i], ghosts'[i].nextDir,
                IF Dist2(ghosts[i].pos, pacman.pos) > (8 * TILE_SIZE) * (8 * TILE_SIZE)
                THEN Pos(0, 500)
                ELSE pacman.pos)]_vars

\* C17 amended: role 3 in Chase steers for the corner (0, 500) when it is
\* less than 8 tiles from the player, and for the player at 8 tiles or more.
C17_Role3CornerWhenNear ==
  [][\A i \in 1..Len(ghosts) :
       (ghosts[i].id = 3 /\ ghosts[i].state = "CHASE" /\ Deciding(map, ghosts[i])) =>
         IsBest(map, ghosts[i], ghosts'[i].nextDir,
                IF Dist2(ghosts[i].pos, pacman.pos) < (8 * TILE_SIZE) * (8 * TILE_SIZE)
                THEN Pos(0, 500)
                ELSE pacman.pos)]_vars

\* Role 3, in Chase, has left the loop's corner along the corridor towards a
\* player 9 tiles away.
C17_Witness ==
  /\ pacman.pos = Pos(10 * TILE_SIZE, TILE_SIZE)
  /\ ghosts[1].id = 3 /\ ghosts[1].state = "CHASE"
  /\ ghosts[1].pos = Pos(TILE_SIZE + GHOST_SPEED, TILE_SIZE)
  /\ ghosts[1].dir = "RIGHT"

\* The player's position moved by dx and dy tiles.
Offset(pac, dx, dy) == Pos(pac.pos.x + dx * TILE_SIZE, pac.pos.y + dy * TILE_SIZE)

C19_NearestNonReverse ==
  [][\A i \in 1..Len(ghosts) :
       Deciding(map, ghosts[i]) =>
         IsBest(map, ghosts[i], ghosts'[i].nextDir,
                Target(ghosts[i], pacman, ghosts))]_vars

\* A ghost has run to the end of the dead-end corridor and turned back.
C19_Witness ==
  /\ ghosts[1].pos = Pos(10 * TILE_SIZE - GHOST_SPEED, TILE_SIZE)
  /\ ghosts[1].dir = "LEFT"
  /\ ghosts[1].state = "CHASE"

\* The ghost-eaten sound of the ghost with this id is in ss.
EatSound(ss, id) == \E k \in 1..Len(ss) : ss[k][1] = "eatGhost" /\ ss[k][2] = id

\* The change of state of the i-th ghost in a step that loads no level is
\* one of the listed ones, or two of them on one frame (a pickup and then
\* the capture of the same ghost).
ListedChange(i) ==
  LET a == ghosts[i].state
      b == ghosts'[i].state
      id == ghosts[i].id
  IN a # b =>
       \/ b = "CHASE" /\ HasSound(sounds', "caught") /\ Tick
       \/ /\ a = "CHASE" /\ b = "FRIGHTENED"
          /\ HasSound(sounds', "power") /\ Tick
       \/ /\ a = "FRIGHTENED" /\ b = "CHASE"
          /\ gameState.powerModeTime = 1 /\ Tick
       \/ /\ a = "FRIGHTENED" /\ b = "EATEN"
          /\ EatSound(sounds', id) /\ Tick
       \/ /\ a = "CHASE" /\ b = "EATEN"
          /\ HasSound(sounds', "power") /\ EatSound(sounds', id) /\ Tick
       \/ /\ a = "EATEN" /\ b = "CHASE"
          /\ timers # << >> /\ Head(timers).ghostId = id /\ FireRevert

\* C20: every change of a ghost's state is Chase to Frightened on a frame
\* with a power-pellet pickup, Frightened to Chase on the frame that starts
\* with the countdown at 1, Frightened to Eaten on a frame that captures
\* that ghost, Eaten to Chase by the revert scheduled for that ghost, or any
\* state to Chase on a life loss or a level load; so an Eaten ghost stays
\* Eaten through pickups, the countdown's end and collisions, and no ghost
\* is ever in a state other than Chase, Frightened or Eaten.
C20_ListedStateChanges ==
  /\ [](\A i \in 1..Len(ghosts) : ghosts[i].state \in {"CHASE", "FRIGHTENED", "EATEN"})
  /\ [][IF Restart \/ AdvanceToNextLevel
        THEN \A i \in 1..Len(ghosts') : ghosts'[i].state = "CHASE"
        ELSE \A i \in 1..Len(ghosts) : ListedChange(i)]_vars

\* A revert has just returned a captured ghost to Chase after the countdown
\* ran out and calmed the others, with no life lost on the way.
C20_Witness ==
  /\ HasSound(sounds, "respawn")
  /\ gameState.powerModeTime = 0
  /\ gameState.lives = 3 /\ gameState.score >= 250
  /\ Len(ghosts) = 4
  /\ \A i \in 1..Len(ghosts) : ghosts[i].state = "CHASE"

\* Cell c is the one nearest to coordinate v, the higher of two equally near.
IsNearest(c, v) ==
  /\ 2 * c * TILE_SIZE - TILE_SIZE <= 2 * v
  /\ 2 * v < 2 * c * TILE_SIZE + TILE_SIZE

\* The points of an item tile.
PointsOf(tile) == CASE tile = 2 -> 10 [] tile = 3 -> 50 [] tile = 6 -> 100 [] OTHER -> 0

\* C21: a frame changes the grid in at most one cell, the one nearest to
\* the player's position after its move, from Pellet, PowerPellet or Bonus
\* to Empty, and the score rises by 10, 50 or 100 for that item (on top of
\* 200 for each capture of the frame); with no cell changed the score rises
\* by the captures only.  No other cell changes and no Wall is modified.
C21_OneCellPerTick ==
  [][~(Restart \/ AdvanceToNextLevel) =>
       /\ map' # map =>
            \E r \in 1..MapRows(map) : \E c \in 1..MapCols(map) :
              /\ IsNearest(c - 1, moveEntity(map, pacman, PACMAN_SPEED).pos.x)
              /\ IsNearest(r - 1, moveEntity(map, pacman, PACMAN_SPEED).pos.y)
              /\ map[r][c] \in {2, 3, 6}
              /\ map' = [map EXCEPT ![r][c] = 0]
              /\ gameState'.score =
                   gameState.score + PointsOf(map[r][c]) + 200 * Captures(sounds')
              /\ Tick
       /\ (map' = map /\ gameState'.score # gameState.score) =>
            gameState'.score = gameState.score + 200 * Captures(sounds')]_vars

\* The player has left by the right edge and, back in at the left one, has
\* just eaten the last Pellet, the PowerPellet and the Bonus being gone.
C21_Witness ==
  /\ pacman.pos.x < 0
  /\ HasSound(sounds, "pellet")
  /\ ~PelletLeft(map)
  /\ CountTiles(map, 6) = 0
  /\ gameState.isLevelComplete

\* The tile-sized box with its top-left corner at pos covers part of a Wall
\* tile of the grid: one of the tiles under its four corners is a Wall.
OverlapsWall(m, pos) ==
  \E gx \in {pos.x \div TILE_SIZE, (pos.x + TILE_SIZE - 1) \div TILE_SIZE} :
    \E gy \in {pos.y \div TILE_SIZE, (pos.y + TILE_SIZE - 1) \div TILE_SIZE} :
      TileAt(m, gx, gy) = 1

\* C22: neither the player's box nor any ghost's overlaps a Wall tile of the
\* grid, whatever speed changes, halts and re-starts came before.
C22_NoEntityInWall ==
  /\ ~OverlapsWall(map, pacman.pos)
  /\ \A i \in 1..Len(ghosts) : ~OverlapsWall(map, ghosts[i].pos)

====
